---- MODULE Spec2Model ----
(***************************************************************************)
(* Model of the combination-occurrence analyzer (PatternAnalyzer): the     *)
(* pattern catalogue, the per-match evaluation, the three combination      *)
(* generators, the worker-parallel counting into global_combinations_dict  *)
(* under dict_lock, and the ranking of the final tally.                    *)
(***************************************************************************)
EXTENDS Integers, Sequences, FiniteSets, TLC

\* ------------------------------------------------------------------------
\* Bounds of the model
\* ------------------------------------------------------------------------
MaxMatches == 8
MaxPeriod == 2
MaxThreads == 2
MaxLeagueMatches == 1
MAX_RESULTS_PER_CATEGORY == 2

\* the most events one fixtures/events response carries
MaxEvents == 2

\* ------------------------------------------------------------------------
\* Configuration constants (AnalysisConfig defaults)
\* ------------------------------------------------------------------------
COMBINATION_STRATEGY == "by_event_type"
MIN_EVENTS_COMBINATION == 3
MAX_EVENTS_COMBINATION == 5

\* ------------------------------------------------------------------------
\* Generic sequence helpers
\* ------------------------------------------------------------------------
RECURSIVE SeqSum(_)
SeqSum(s) == IF s = <<>> THEN 0 ELSE Head(s) + SeqSum(Tail(s))

RECURSIVE Concat(_)
Concat(ss) == IF ss = <<>> THEN <<>> ELSE Head(ss) \o Concat(Tail(ss))

Range(s) == {s[i] : i \in 1..Len(s)}

Max2(a, b) == IF a >= b THEN a ELSE b

Min2(a, b) == IF a <= b THEN a ELSE b

\* ------------------------------------------------------------------------
\* Pattern catalogue: six entries of EventPatterns.get_all_patterns(), in
\* source order.  cond identifies the condition lambda; entries 5 and 6 are
\* the two catalogue entries named corners_odd, whose lambdas are the same
\* expression.  Entries 1 and 4 are two goals patterns with the half_stats
\* patterns listed between them, as in the source.
\* ------------------------------------------------------------------------
all_patterns ==
  << [name |-> "total_goals_odd", market |-> "odd_even",
      event_type |-> "goals", cond |-> 1],
     [name |-> "first_half_under_0_5", market |-> "first_half_over_under",
      event_type |-> "half_stats", cond |-> 2],
     [name |-> "first_half_under_1_5", market |-> "first_half_over_under",
      event_type |-> "half_stats", cond |-> 3],
     [name |-> "goal_method_shot", market |-> "goal_method",
      event_type |-> "goals", cond |-> 4],
     [name |-> "corners_odd", market |-> "corners_odd_even",
      event_type |-> "corners", cond |-> 5],
     [name |-> "corners_odd", market |-> "odd_even_corners",
      event_type |-> "corners", cond |-> 5] >>

all_pattern_names == [i \in 1..Len(all_patterns) |-> all_patterns[i].name]

PatternNames == Range(all_pattern_names)

\* dict built by _organize_patterns: a later entry of the same name
\* overwrites an earlier one
pattern_name_to_obj ==
  [n \in PatternNames |->
     all_patterns[CHOOSE i \in 1..Len(all_patterns) :
                    /\ all_patterns[i].name = n
                    /\ \A j \in (i+1)..Len(all_patterns) : all_patterns[j].name # n]]

\* ------------------------------------------------------------------------
\* Matches.  A match is abstracted to the outcome of every condition on it:
\* "T" (true), "F" (false) or "E" (the lambda raises).  ok = FALSE is a list
\* element on which evaluation raises outside the per-pattern try block
\* (e.g. an element without an id attribute: the except handler's log line
\* reads match.id, or memory exhausted while the combinations are listed).
\* ------------------------------------------------------------------------
Outcomes == {"T", "F", "E"}

Mk(o1, o2, o3, o4, o5) == [ok |-> TRUE, out |-> <<o1, o2, o3, o4, o5>>]

BrokenMatch == [ok |-> FALSE, out |-> <<"F", "F", "F", "F", "F">>]

MatchKinds ==
  { Mk("T", "T", "T", "T", "F"),
    Mk("T", "F", "T", "F", "F"),
    Mk("T", "E", "T", "T", "T"),
    Mk("F", "F", "T", "T", "T"),
    BrokenMatch }

\* ------------------------------------------------------------------------
\* _get_occurring_patterns_for_match
\* ------------------------------------------------------------------------
\* variant: a pattern whose condition raised is kept as if it had fired
RECURSIVE OccurringFrom_RaisedKept(_, _)
OccurringFrom_RaisedKept(match, i) ==
  IF i > Len(all_patterns) THEN <<>>
  ELSE LET o == match.out[all_patterns[i].cond] IN
       IF o \in {"T", "E"}
       THEN <<all_patterns[i].name>> \o OccurringFrom_RaisedKept(match, i + 1)
       ELSE OccurringFrom_RaisedKept(match, i + 1)

\* variant: the first condition that raises ends the loop over the patterns
RECURSIVE OccurringFrom_RaiseAborts(_, _)
OccurringFrom_RaiseAborts(match, i) ==
  IF i > Len(all_patterns) THEN <<>>
  ELSE LET o == match.out[all_patterns[i].cond] IN
       IF o = "T"
       THEN <<all_patterns[i].name>> \o OccurringFrom_RaiseAborts(match, i + 1)
       ELSE IF o = "E" THEN <<>>
       ELSE OccurringFrom_RaiseAborts(match, i + 1)

RECURSIVE OccurringFrom(_, _)
OccurringFrom(match, i) ==
  IF i > Len(all_patterns) THEN <<>>
  ELSE LET o == match.out[all_patterns[i].cond] IN
       IF o = "T" THEN <<all_patterns[i].name>> \o OccurringFrom(match, i + 1)
       ELSE OccurringFrom(match, i + 1)

\* the list of names returned for a match on which the function returns
_get_occurring_patterns_for_match(match) == OccurringFrom(match, 1)

\* TRUE when the call raises instead of returning
EvaluationRaises(match) == ~match.ok

\* ------------------------------------------------------------------------
\* itertools.combinations and PatternAnalyzer._product
\* ------------------------------------------------------------------------
RECURSIVE combinations(_, _)
combinations(s, k) ==
  IF k = 0 THEN << <<>> >>
  ELSE IF Len(s) < k THEN <<>>
  ELSE LET withHead == combinations(Tail(s), k - 1)
       IN [i \in 1..Len(withHead) |-> <<Head(s)>> \o withHead[i]]
          \o combinations(Tail(s), k)

RECURSIVE _product(_)
_product(args) ==
  IF args = <<>> THEN << <<>> >>
  ELSE LET first == Head(args)
           rest == _product(Tail(args))
       IN Concat([i \in 1..Len(first) |->
                    [j \in 1..Len(rest) |-> <<first[i]>> \o rest[j]]])

\* ------------------------------------------------------------------------
\* Grouping of occurring names by a label (defaultdict(list)): the label
\* order is first-occurrence order, each group keeps the occurring order.
\* ------------------------------------------------------------------------
RECURSIVE GroupKeys(_, _)
GroupKeys(labels, seen) ==
  IF labels = <<>> THEN <<>>
  ELSE IF Head(labels) \in seen THEN GroupKeys(Tail(labels), seen)
  ELSE <<Head(labels)>> \o GroupKeys(Tail(labels), seen \cup {Head(labels)})

GroupOf(names, labels, l) == SelectSeq(names, LAMBDA n : labels[n] = l)

MarketOf == [n \in PatternNames |-> pattern_name_to_obj[n].market]

EventTypeOf == [n \in PatternNames |-> pattern_name_to_obj[n].event_type]

GenerateByLabel(occurring_patterns, size, labelOf) ==
  LET available == GroupKeys([i \in 1..Len(occurring_patterns) |->
                                labelOf[occurring_patterns[i]]], {})
  IN IF size > Len(available) THEN <<>>
     ELSE LET label_combos == combinations(available, size)
          IN Concat([c \in 1..Len(label_combos) |->
                       _product([p \in 1..size |->
                                   GroupOf(occurring_patterns, labelOf,
                                           label_combos[c][p])])])

_generate_combinations_by_event_type_from_occurring(occurring_patterns, size) ==
  GenerateByLabel(occurring_patterns, size, EventTypeOf)

\* variant: the market generator does not filter by market
_generate_combinations_by_market_Unfiltered(occurring_patterns, size) ==
  IF size > Len(occurring_patterns) THEN <<>>
  ELSE combinations(occurring_patterns, size)

_generate_combinations_by_market_from_occurring(occurring_patterns, size) ==
  GenerateByLabel(occurring_patterns, size, MarketOf)

_generate_full_combinations_from_occurring(occurring_patterns, size) ==
  IF size > Len(occurring_patterns) THEN <<>>
  ELSE combinations(occurring_patterns, size)

Strategies == {"by_event_type", "by_market", "full"}

\* the values the attribute can be given: the three names the dispatch tests
\* for and a name it does not know
StrategyNames == Strategies \cup {"by_league"}

_generate_valid_combinations(strategy, occurring_patterns, size) ==
  IF strategy = "by_event_type"
  THEN _generate_combinations_by_event_type_from_occurring(occurring_patterns, size)
  ELSE IF strategy = "by_market"
  THEN _generate_combinations_by_market_from_occurring(occurring_patterns, size)
  ELSE _generate_full_combinations_from_occurring(occurring_patterns, size)

\* ------------------------------------------------------------------------
\* Dictionary keys: "|".join(combo) and key.split("|").  A key is modelled
\* as the sequence of its tokens, the separator being a token of its own.
\* ------------------------------------------------------------------------
RECURSIVE Join(_)
Join(combo) ==
  IF combo = <<>> THEN <<>>
  ELSE IF Len(combo) = 1 THEN <<combo[1]>>
  ELSE <<combo[1], "|">> \o Join(Tail(combo))

RECURSIVE SplitFrom(_, _)
SplitFrom(key, i) ==
  IF i > Len(key) THEN <<>>
  ELSE IF key[i] = "|" THEN SplitFrom(key, i + 1)
  ELSE <<key[i]>> \o SplitFrom(key, i + 1)

Split(key) == SplitFrom(key, 1)

\* ------------------------------------------------------------------------
\* Python dicts: insertion-ordered sequences of <<key, value>> pairs
\* ------------------------------------------------------------------------
EmptyDict == <<>>

DictKeys(d) == {d[i][1] : i \in 1..Len(d)}

DictGet(d, k, default) ==
  IF \E i \in 1..Len(d) : d[i][1] = k
  THEN d[CHOOSE i \in 1..Len(d) : d[i][1] = k][2]
  ELSE default

DictSet(d, k, v) ==
  IF \E i \in 1..Len(d) : d[i][1] = k
  THEN [d EXCEPT ![CHOOSE i \in 1..Len(d) : d[i][1] = k] = <<k, v>>]
  ELSE Append(d, <<k, v>>)

\* ------------------------------------------------------------------------
\* _analyze_match_batch_global, lines 183-201: the contribution of one match
\* to the worker's local_batch_dict
\* ------------------------------------------------------------------------
\* (the test on the updated dict makes TLC evaluate it before the next
\* iteration; a dict that has just been written is never empty)
RECURSIVE CountCombosFrom(_, _, _)
CountCombosFrom(local, combos, i) ==
  IF i > Len(combos) THEN local
  ELSE LET combo_key == Join(combos[i])
           counted == DictSet(local, combo_key, DictGet(local, combo_key, 0) + 1)
       IN IF Len(counted) > 0 THEN CountCombosFrom(counted, combos, i + 1)
          ELSE counted

CountCombos(local, combos) == CountCombosFrom(local, combos, 1)

RECURSIVE CountSizes(_, _, _, _)
CountSizes(strategy, local, occurring_patterns, size) ==
  IF size > MAX_EVENTS_COMBINATION THEN local
  ELSE IF Len(occurring_patterns) < size
  THEN CountSizes(strategy, local, occurring_patterns, size + 1)
  ELSE CountSizes(strategy,
                  CountCombos(local,
                              _generate_valid_combinations(strategy,
                                                           occurring_patterns, size)),
                  occurring_patterns, size + 1)

CountMatch(strategy, local, match) ==
  LET occurring_patterns == _get_occurring_patterns_for_match(match)
  IN IF occurring_patterns = <<>> THEN local
     ELSE CountSizes(strategy, local, occurring_patterns, MIN_EVENTS_COMBINATION)

\* lines 204-206: for every item of the local dict, in its order,
\* global[key] = global.get(key, 0) + count, the reads taken from seen (the
\* dict as the worker found it when it entered the locked block)
RECURSIVE MergeLocalFrom(_, _, _, _)
MergeLocalFrom(global, seen, local, i) ==
  IF i > Len(local) THEN global
  ELSE LET written == DictSet(global, local[i][1],
                              DictGet(seen, local[i][1], 0) + local[i][2])
       IN IF Len(written) > 0 THEN MergeLocalFrom(written, seen, local, i + 1)
          ELSE written

MergeLocal(global, seen, local) == MergeLocalFrom(global, seen, local, 1)

\* ------------------------------------------------------------------------
\* Batching: _analyze_matches_optimized line 121 and
\* _process_batch_with_global_dict lines 159-160
\* ------------------------------------------------------------------------
BatchSize(n, t) == Max2(1, n \div (t * 2))

SubBatchStep(len, t) == Max2(1, len \div t)

\* the sub-batches of the batch of matches lo..hi (1-based, inclusive), as
\* <<first, last>> index pairs in submission order
RECURSIVE SubBatchesFrom(_, _, _)
SubBatchesFrom(lo, hi, step) ==
  IF lo > hi THEN <<>>
  ELSE << <<lo, Min2(lo + step - 1, hi)>> >> \o SubBatchesFrom(lo + step, hi, step)

SubBatches(lo, hi, t) == SubBatchesFrom(lo, hi, SubBatchStep(hi - lo + 1, t))

\* ------------------------------------------------------------------------
\* The run under the serial schedule: the sub-batches of every batch are
\* executed one after the other in submission order
\* ------------------------------------------------------------------------
SubBatchRaises(ms, sb) == \E i \in sb[1]..sb[2] : EvaluationRaises(ms[i])

RECURSIVE LocalBatchDict(_, _, _, _, _)
LocalBatchDict(strategy, ms, pos, hi, local) ==
  IF pos > hi THEN local
  ELSE LocalBatchDict(strategy, ms, pos + 1, hi, CountMatch(strategy, local, ms[pos]))

RECURSIVE SerialSubBatches(_, _, _, _)
SerialSubBatches(strategy, ms, sbs, global) ==
  IF sbs = <<>> THEN global
  ELSE LET sb == Head(sbs)
           local == LocalBatchDict(strategy, ms, sb[1], sb[2], EmptyDict)
       IN SerialSubBatches(strategy, ms, Tail(sbs),
                           IF SubBatchRaises(ms, sb) THEN global
                           ELSE MergeLocal(global, global, local))

RECURSIVE SerialBatches(_, _, _, _, _)
SerialBatches(strategy, ms, t, start, global) ==
  IF start >= Len(ms) THEN global
  ELSE LET batch_size == BatchSize(Len(ms), t)
           batch_end == Min2(start + batch_size, Len(ms))
       IN SerialBatches(strategy, ms, t, start + batch_size,
                        SerialSubBatches(strategy, ms,
                                         SubBatches(start + 1, batch_end, t),
                                         global))

SerialRun(strategy, ms, t) == SerialBatches(strategy, ms, t, 0, EmptyDict)

\* a dict as a function from its keys to their values
CountsOf(d) == [k \in DictKeys(d) |-> DictGet(d, k, 0)]

\* ------------------------------------------------------------------------
\* Input match lists: up to MaxMatches matches, a base of at most MaxPeriod
\* match kinds repeated in order.  A base is one kind, closed by a match of
\* a second kind.
\* ------------------------------------------------------------------------
Bases ==
  {[i \in 1..p |-> IF i = p THEN b ELSE a] :
     p \in 1..MaxPeriod, a \in MatchKinds, b \in MatchKinds}

MatchLists ==
  {[i \in 1..n |-> b[((i - 1) % Len(b)) + 1]] : n \in 1..MaxMatches, b \in Bases}

\* the groups of an input holding two league+seasons: up to MaxLeagueMatches
\* matches of one kind each
LeagueLists ==
  {[i \in 1..n |-> m] : n \in 1..MaxLeagueMatches, m \in MatchKinds}

\* ------------------------------------------------------------------------
\* State
\* ------------------------------------------------------------------------
VARIABLES
  matches,                    \* the league+season match list under analysis
  thread_count,               \* self.thread_count (config.THREAD_COUNT)
  combination_strategy,       \* self.combination_strategy
  use_odd_info,               \* self.use_odd_info
  pc,                         \* position of the main thread
  batch_start,                \* loop variable of _analyze_matches_optimized
  tasks,                      \* the futures of the current batch
  dict_lock,                  \* 0 when free, else the task holding it
  global_combinations_dict,   \* the shared tally
  error_log,                  \* number of "Error processing sub-batch" entries
  final_results,              \* return value of _prepare_final_results_lazy
  evaluated,                  \* history: per match, what the evaluator returned
  merged,                     \* history: matches whose counts were merged
  later_leagues,              \* match lists of the league+seasons still to come
  league_results,             \* league_results: the results of the groups done
  lock_acquisitions,          \* history: entries into "with self.dict_lock" of the run
  match_cache,                \* OrganizedCacheManager: the cache entry of a match
  enrich_pc,                  \* position of _enrich_match_data for that match
  api_requests,               \* endpoints requested during the enrichment
  match_data,                 \* events_data and stats_data the match is built from
  stats_fetched               \* history: a statistics response was fetched and stored

vars == <<matches, thread_count, combination_strategy, use_odd_info, pc,
          batch_start, tasks, dict_lock, global_combinations_dict, error_log,
          final_results, evaluated, merged, later_leagues, league_results,
          lock_acquisitions, match_cache, enrich_pc, api_requests, match_data,
          stats_fetched>>

fetch_vars == <<match_cache, enrich_pc, api_requests, match_data, stats_fetched>>

analyzer_vars ==
  <<matches, thread_count, combination_strategy, use_odd_info, pc,
    batch_start, tasks, dict_lock, global_combinations_dict, error_log,
    final_results, evaluated, merged, later_leagues, league_results,
    lock_acquisitions>>

\* a cache entry as save_matches writes it: no events, statistics or
\* has_details key (has_events, has_statistics: the key is in the entry)
BasicEntry ==
  [present |-> TRUE, has_details |-> FALSE,
   has_events |-> FALSE, events |-> <<>>,
   has_statistics |-> FALSE, statistics |-> <<>>]

AbsentEntry == [BasicEntry EXCEPT !.present = FALSE]

\* HalfStats(): the counters of one half, all zero
HalfStats ==
  [home_goals |-> 0, away_goals |-> 0, home_cards |-> 0, away_cards |-> 0,
   home_corners |-> 0, away_corners |-> 0]

NoData ==
  [events |-> <<>>, statistics |-> <<>>, source |-> "none",
   first_half |-> HalfStats, second_half |-> HalfStats]

\* the API client before any match is enriched
ClientIdle ==
  /\ match_cache = AbsentEntry
  /\ enrich_pc = "idle"
  /\ api_requests = <<>>
  /\ match_data = NoData
  /\ stats_fetched = FALSE

NoResults == [mode |-> "none"]

Init ==
  /\ \/ matches \in MatchLists /\ later_leagues = <<>>
     \/ matches \in LeagueLists /\ later_leagues \in {<<ms>> : ms \in LeagueLists}
  /\ league_results = <<>>
  /\ lock_acquisitions = 0
  /\ thread_count \in 1..MaxThreads
  /\ combination_strategy = "full"
  /\ use_odd_info = TRUE
  /\ pc = "idle"
  /\ batch_start = 0
  /\ tasks = <<>>
  /\ dict_lock = 0
  /\ global_combinations_dict = EmptyDict
  /\ error_log = 0
  /\ final_results = NoResults
  /\ evaluated = [i \in 1..Len(matches) |-> <<"pending">>]
  /\ merged = {}
  /\ ClientIdle

\* ------------------------------------------------------------------------
\* The caller selects a strategy / a mode by assigning the attribute before
\* the analysis starts
\* ------------------------------------------------------------------------
SetStrategy(s) ==
  /\ pc = "idle"
  /\ combination_strategy # s
  /\ combination_strategy' = s
  /\ UNCHANGED <<matches, thread_count, use_odd_info, pc, batch_start, tasks,
                 dict_lock, global_combinations_dict, error_log, final_results,
                 evaluated, merged,
                 later_leagues, league_results, lock_acquisitions>>
  /\ UNCHANGED fetch_vars

SetUseOddInfo(b) ==
  /\ pc = "idle"
  /\ use_odd_info # b
  /\ use_odd_info' = b
  /\ UNCHANGED <<matches, thread_count, combination_strategy, pc, batch_start,
                 tasks, dict_lock, global_combinations_dict, error_log,
                 final_results, evaluated, merged,
                 later_leagues, league_results, lock_acquisitions>>
  /\ UNCHANGED fetch_vars

\* ------------------------------------------------------------------------
\* Main thread: analyze_matches / _analyze_matches_optimized
\* ------------------------------------------------------------------------
StartAnalysis ==
  /\ pc = "idle"
  /\ pc' = "batch"
  /\ batch_start' = 0
  /\ global_combinations_dict' = EmptyDict
  /\ UNCHANGED <<matches, thread_count, combination_strategy, use_odd_info,
                 tasks, dict_lock, error_log, final_results, evaluated, merged,
                 later_leagues, league_results, lock_acquisitions>>
  /\ UNCHANGED fetch_vars

NewTask(sb) ==
  [lo |-> sb[1], hi |-> sb[2], pos |-> sb[1], local |-> EmptyDict,
   seen |-> EmptyDict, st |-> "queued"]

\* one iteration of the batch loop up to the submission of the sub-batches
SubmitBatch ==
  /\ pc = "batch"
  /\ batch_start < Len(matches)
  /\ LET batch_size == BatchSize(Len(matches), thread_count)
         batch_end == Min2(batch_start + batch_size, Len(matches))
         sub_batches == SubBatches(batch_start + 1, batch_end, thread_count)
     IN tasks' = [k \in 1..Len(sub_batches) |-> NewTask(sub_batches[k])]
  /\ pc' = "wait"
  /\ UNCHANGED <<matches, thread_count, combination_strategy, use_odd_info,
                 batch_start, dict_lock, global_combinations_dict, error_log,
                 final_results, evaluated, merged,
                 later_leagues, league_results, lock_acquisitions>>
  /\ UNCHANGED fetch_vars

Active(k) == tasks[k].st \in {"running", "merging"}

\* variant: a future counts as done as soon as a pool thread has taken it
Finished_OnceStarted(k) == tasks[k].st # "queued"

Finished(k) == tasks[k].st \in {"done", "failed"}

\* a pool thread takes the next queued work item (max_workers = thread_count)
TaskStart(k) ==
  /\ pc = "wait"
  /\ tasks[k].st = "queued"
  /\ \A j \in 1..(k - 1) : tasks[j].st # "queued"
  /\ Cardinality({j \in 1..Len(tasks) : Active(j)}) < thread_count
  /\ tasks' = [tasks EXCEPT ![k].st = "running"]
  /\ UNCHANGED <<matches, thread_count, combination_strategy, use_odd_info, pc,
                 batch_start, dict_lock, global_combinations_dict, error_log,
                 final_results, evaluated, merged,
                 later_leagues, league_results, lock_acquisitions>>
  /\ UNCHANGED fetch_vars

\* variant: a raising match ends the loop but the worker still merges what
\* it has counted so far
ProcessMatch_MergeOnRaise(k) ==
  /\ pc = "wait"
  /\ tasks[k].st = "running"
  /\ tasks[k].pos <= tasks[k].hi
  /\ LET match == matches[tasks[k].pos] IN
       IF EvaluationRaises(match)
       THEN /\ tasks' = [tasks EXCEPT ![k].pos = tasks[k].hi + 1]
            /\ evaluated' = [evaluated EXCEPT ![tasks[k].pos] = <<"raised">>]
       ELSE /\ tasks' = [tasks EXCEPT
                           ![k].local = CountMatch(combination_strategy, @, match),
                           ![k].pos = @ + 1]
            /\ evaluated' = [evaluated EXCEPT ![tasks[k].pos] =
                               <<"returned", _get_occurring_patterns_for_match(match)>>]
  /\ UNCHANGED <<matches, thread_count, combination_strategy, use_odd_info, pc,
                 batch_start, dict_lock, global_combinations_dict, error_log,
                 final_results, merged,
                 later_leagues, league_results, lock_acquisitions>>
  /\ UNCHANGED fetch_vars

\* variant: the worker takes the lock once for every match it counts
ProcessMatch_LockPerMatch(k) ==
  /\ pc = "wait"
  /\ tasks[k].st = "running"
  /\ tasks[k].pos <= tasks[k].hi
  /\ dict_lock = 0
  /\ LET match == matches[tasks[k].pos] IN
       IF EvaluationRaises(match)
       THEN /\ tasks' = [tasks EXCEPT ![k].st = "failed"]
            /\ evaluated' = [evaluated EXCEPT ![tasks[k].pos] = <<"raised">>]
            /\ UNCHANGED lock_acquisitions
       ELSE /\ tasks' = [tasks EXCEPT
                           ![k].local = CountMatch(combination_strategy, @, match),
                           ![k].pos = @ + 1]
            /\ evaluated' = [evaluated EXCEPT ![tasks[k].pos] =
                               <<"returned", _get_occurring_patterns_for_match(match)>>]
            /\ lock_acquisitions' = lock_acquisitions + 1
  /\ UNCHANGED <<matches, thread_count, combination_strategy, use_odd_info, pc,
                 batch_start, dict_lock, global_combinations_dict, error_log,
                 final_results, merged, later_leagues, league_results>>
  /\ UNCHANGED fetch_vars

\* one iteration of the worker's loop over its matches
ProcessMatch(k) ==
  /\ pc = "wait"
  /\ tasks[k].st = "running"
  /\ tasks[k].pos <= tasks[k].hi
  /\ LET match == matches[tasks[k].pos] IN
       IF EvaluationRaises(match)
       THEN /\ tasks' = [tasks EXCEPT ![k].st = "failed"]
            /\ evaluated' = [evaluated EXCEPT ![tasks[k].pos] = <<"raised">>]
       ELSE /\ tasks' = [tasks EXCEPT
                           ![k].local = CountMatch(combination_strategy, @, match),
                           ![k].pos = @ + 1]
            /\ evaluated' = [evaluated EXCEPT ![tasks[k].pos] =
                               <<"returned", _get_occurring_patterns_for_match(match)>>]
  /\ UNCHANGED <<matches, thread_count, combination_strategy, use_odd_info, pc,
                 batch_start, dict_lock, global_combinations_dict, error_log,
                 final_results, merged,
                 later_leagues, league_results, lock_acquisitions>>
  /\ UNCHANGED fetch_vars

\* variant: the merge is not guarded
CanAcquire_Unguarded(lock) == TRUE

\* threading.Lock: acquirable when nobody holds it
CanAcquire(lock) == lock = 0

\* with self.dict_lock: entered after the loop; the worker reads the dict
AcquireLock(k) ==
  /\ pc = "wait"
  /\ tasks[k].st = "running"
  /\ tasks[k].pos > tasks[k].hi
  /\ CanAcquire(dict_lock)
  /\ dict_lock' = k
  /\ lock_acquisitions' = lock_acquisitions + 1
  /\ tasks' = [tasks EXCEPT ![k].st = "merging",
                            ![k].seen = global_combinations_dict]
  /\ UNCHANGED <<matches, thread_count, combination_strategy, use_odd_info, pc,
                 batch_start, global_combinations_dict, error_log, final_results,
                 evaluated, merged,
                 later_leagues, league_results>>
  /\ UNCHANGED fetch_vars

\* variant: the lock is not released at the end of the merge
MergeRelease_KeepsLock(k) ==
  /\ pc = "wait"
  /\ tasks[k].st = "merging"
  /\ global_combinations_dict' =
       MergeLocal(global_combinations_dict, tasks[k].seen, tasks[k].local)
  /\ tasks' = [tasks EXCEPT ![k].st = "done"]
  /\ merged' = merged \cup (tasks[k].lo..tasks[k].hi)
  /\ UNCHANGED <<matches, thread_count, combination_strategy, use_odd_info, pc,
                 batch_start, dict_lock, error_log, final_results, evaluated,
                 later_leagues, league_results, lock_acquisitions>>
  /\ UNCHANGED fetch_vars

\* the writes of the merge loop, then the release of the lock
MergeRelease(k) ==
  /\ pc = "wait"
  /\ tasks[k].st = "merging"
  /\ global_combinations_dict' =
       MergeLocal(global_combinations_dict, tasks[k].seen, tasks[k].local)
  /\ dict_lock' = 0
  /\ tasks' = [tasks EXCEPT ![k].st = "done"]
  /\ merged' = merged \cup (tasks[k].lo..tasks[k].hi)
  /\ UNCHANGED <<matches, thread_count, combination_strategy, use_odd_info, pc,
                 batch_start, error_log, final_results, evaluated,
                 later_leagues, league_results, lock_acquisitions>>
  /\ UNCHANGED fetch_vars

\* as_completed loop and exit of the executor block: every future is done;
\* future.result() of a failed one raises, which is caught and logged
CollectBatch ==
  /\ pc = "wait"
  /\ \A k \in 1..Len(tasks) : Finished(k)
  /\ error_log' = error_log + Cardinality({k \in 1..Len(tasks) : tasks[k].st = "failed"})
  /\ batch_start' = batch_start + BatchSize(Len(matches), thread_count)
  /\ tasks' = <<>>
  /\ pc' = "batch"
  /\ UNCHANGED <<matches, thread_count, combination_strategy, use_odd_info,
                 dict_lock, global_combinations_dict, final_results, evaluated,
                 merged,
                 later_leagues, league_results, lock_acquisitions>>
  /\ UNCHANGED fetch_vars

\* ------------------------------------------------------------------------
\* Python list helpers used by the ranker
\* ------------------------------------------------------------------------
\* s[:n]
Prefix(s, n) == SubSeq(s, 1, Min2(n, Len(s)))

\* s[-n:]  (s[-0:] is the whole list)
Suffix(s, n) == IF n = 0 THEN s ELSE SubSeq(s, Max2(1, Len(s) - n + 1), Len(s))

Reversed(s) == [i \in 1..Len(s) |-> s[Len(s) + 1 - i]]

\* sorted(s, key=...): stable; Before(a, b) is "key(a) < key(b)"
SortedBy(s, Before(_, _)) ==
  LET rank(i) == Cardinality({j \in 1..Len(s) :
                    \/ Before(s[j], s[i])
                    \/ (~Before(s[i], s[j]) /\ j < i)}) + 1
  IN [r \in 1..Len(s) |-> s[CHOOSE i \in 1..Len(s) : rank(i) = r]]

\* list(dict.fromkeys(s)): first occurrences, in order
RECURSIVE DedupFrom(_, _)
DedupFrom(s, i) ==
  IF i > Len(s) THEN <<>>
  ELSE IF \E j \in 1..(i - 1) : s[j] = s[i] THEN DedupFrom(s, i + 1)
  ELSE <<s[i]>> \o DedupFrom(s, i + 1)

Dedup(s) == DedupFrom(s, 1)

\* ------------------------------------------------------------------------
\* Exact fractions [num, den] with den > 0 stand for the floats of the code
\* ------------------------------------------------------------------------
Frac(n, d) == [num |-> n, den |-> d]

\* comparison of two non-negative fractions without cross-multiplying:
\* -1, 0 or 1 as n1/d1 is less than, equal to or greater than n2/d2
RECURSIVE FracCmp(_, _, _, _)
FracCmp(n1, d1, n2, d2) ==
  LET q1 == n1 \div d1
      q2 == n2 \div d2
      r1 == n1 % d1
      r2 == n2 % d2
  IN IF q1 < q2 THEN -1
     ELSE IF q1 > q2 THEN 1
     ELSE IF r1 = 0 /\ r2 = 0 THEN 0
     ELSE IF r1 = 0 THEN -1
     ELSE IF r2 = 0 THEN 1
     ELSE FracCmp(d2, r2, d1, r1)

\* sign-aware comparison
FracLess(a, b) ==
  IF a.num < 0 /\ b.num >= 0 THEN TRUE
  ELSE IF a.num >= 0 /\ b.num < 0 THEN FALSE
  ELSE IF a.num >= 0 THEN FracCmp(a.num, a.den, b.num, b.den) = -1
  ELSE FracCmp(-b.num, b.den, -a.num, a.den) = -1

\* ------------------------------------------------------------------------
\* OddsCalculator: find_odds_for_pattern and calculate_combination_odds.
\* Odds are held in twentieths (1.95 is 39).
\* ------------------------------------------------------------------------
find_odds_for_pattern ==
  [n \in PatternNames |->
     CASE n = "total_goals_odd" -> 39
       [] n = "first_half_under_0_5" -> 58
       [] n = "first_half_under_1_5" -> 28
       [] n = "goal_method_shot" -> 30
       [] n = "corners_odd" -> 37]

RECURSIVE SeqProduct(_)
SeqProduct(s) == IF s = <<>> THEN 1 ELSE Head(s) * SeqProduct(Tail(s))

\* variant: the implied probability is taken from the first member alone
calculate_combination_odds_FirstMemberOnly(combination, occurrence_count, total_matches) ==
  LET individual_odds == [i \in 1..Len(combination) |->
                            find_odds_for_pattern[combination[i]]]
      P == individual_odds[1]
      H == 20
      value_indicator ==
        IF total_matches > 0
        THEN Frac(occurrence_count * P - total_matches * H, total_matches * P)
        ELSE Frac(0 - H, P)
  IN [individual_odds |-> individual_odds,
      combined_odds |-> Frac(P, H),
      bookmaker_probability |-> Frac(H, P),
      value_indicator |-> value_indicator,
      is_valuable |-> value_indicator.num > 0,
      odds_calculated |-> TRUE]

\* value_indicator is held as a fraction of 1 (the code's value in percentage
\* points is 100 times it): count/total - product of (1/odds)
calculate_combination_odds(combination, occurrence_count, total_matches) ==
  LET individual_odds == [i \in 1..Len(combination) |->
                            find_odds_for_pattern[combination[i]]]
      P == SeqProduct(individual_odds)
      H == SeqProduct([i \in 1..Len(combination) |-> 20])
      value_indicator ==
        IF total_matches > 0
        THEN Frac(occurrence_count * P - total_matches * H, total_matches * P)
        ELSE Frac(0 - H, P)
  IN [individual_odds |-> individual_odds,
      combined_odds |-> Frac(P, H),
      bookmaker_probability |-> Frac(H, P),
      value_indicator |-> value_indicator,
      is_valuable |-> value_indicator.num > 0,
      odds_calculated |-> TRUE]

NoOdds == [odds_calculated |-> FALSE]

\* ------------------------------------------------------------------------
\* _process_combination_list: display items
\* ------------------------------------------------------------------------
PatternDetails(combo) ==
  LET known == SelectSeq(combo, LAMBDA n : n \in DOMAIN pattern_name_to_obj)
  IN [i \in 1..Len(known) |->
        [name |-> pattern_name_to_obj[known[i]].name,
         event_type |-> pattern_name_to_obj[known[i]].event_type,
         market |-> pattern_name_to_obj[known[i]].market]]

Percentage(count, total_matches) ==
  IF total_matches > 0 THEN Frac(count * 100, total_matches) ELSE Frac(0, 1)

ProcessItem(cc, total_matches, strategy, odd) ==
  [events |-> PatternDetails(cc[1]),
   combination_size |-> Len(cc[1]),
   occurrence_count |-> cc[2],
   percentage |-> Percentage(cc[2], total_matches),
   strategy |-> strategy,
   odds_info |-> IF odd THEN calculate_combination_odds(cc[1], cc[2], total_matches)
                 ELSE NoOdds]

_process_combination_list(combos, total_matches, strategy, odd) ==
  [i \in 1..Len(combos) |-> ProcessItem(combos[i], total_matches, strategy, odd)]

\* ------------------------------------------------------------------------
\* Display candidates and statistics (frequency mode)
\* ------------------------------------------------------------------------
CountBefore(a, b) == a[2] < b[2]

_get_display_candidates(combos, odd) ==
  IF combos = <<>> THEN <<>>
  ELSE LET combinations_sorted == SortedBy(combos, CountBefore)
           max_display == IF odd THEN Len(combinations_sorted)
                          ELSE MAX_RESULTS_PER_CATEGORY
       IN Dedup(Prefix(combinations_sorted, max_display)
                \o Suffix(combinations_sorted, max_display))

_get_overall_display_candidates(combos, odd) ==
  IF combos = <<>> THEN <<>>
  ELSE LET combinations_sorted == SortedBy(combos, CountBefore)
           max_display == IF odd THEN Len(combinations_sorted)
                          ELSE MAX_RESULTS_PER_CATEGORY * 2
       IN Dedup(Prefix(combinations_sorted, max_display)
                \o Suffix(combinations_sorted, max_display))

SeqMin(s) == CHOOSE x \in Range(s) : \A y \in Range(s) : x <= y

SeqMax(s) == CHOOSE x \in Range(s) : \A y \in Range(s) : x >= y

_calculate_stats_from_raw(occurred_candidates, never_occurred_candidates) ==
  IF occurred_candidates = <<>>
  THEN [total_combinations_checked |->
          Len(occurred_candidates) + Len(never_occurred_candidates),
        valid_combinations_count |-> 0,
        never_occurred_count |-> Len(never_occurred_candidates),
        occurred_count |-> 0,
        min_occurrence |-> 0,
        max_occurrence |-> 0,
        avg_occurrence |-> Frac(0, 1)]
  ELSE LET occurrences == [i \in 1..Len(occurred_candidates) |->
                             occurred_candidates[i][2]]
       IN [total_combinations_checked |->
             Len(occurred_candidates) + Len(never_occurred_candidates),
           valid_combinations_count |-> SeqSum(occurrences),
           never_occurred_count |-> Len(never_occurred_candidates),
           occurred_count |-> Len(occurred_candidates),
           min_occurrence |-> SeqMin(occurrences),
           max_occurrence |-> SeqMax(occurrences),
           avg_occurrence |-> Frac(SeqSum(occurrences), Len(occurred_candidates))]

_get_empty_size_results ==
  [never_occurred |-> <<>>, least_occurred |-> <<>>, most_occurred |-> <<>>,
   total_combinations |-> 0, occurred_count |-> 0, never_occurred_count |-> 0]

\* ------------------------------------------------------------------------
\* _analyze_matches_optimized lines 140-144 and _prepare_final_results_lazy
\* ------------------------------------------------------------------------
RECURSIVE TupleKeys(_, _, _)
TupleKeys(final, d, i) ==
  IF i > Len(d) THEN final
  ELSE LET written == DictSet(final, Split(d[i][1]), d[i][2])
       IN IF Len(written) > 0 THEN TupleKeys(written, d, i + 1) ELSE written

final_combinations_with_tuples(d) == TupleKeys(EmptyDict, d, 1)

SizeCombinations(cd, size) == SelectSeq(cd, LAMBDA cc : Len(cc[1]) = size)

OccurredCombos(sc) == SelectSeq(sc, LAMBDA cc : cc[2] > 0)

NeverOccurredCombos(sc) == SelectSeq(sc, LAMBDA cc : cc[2] = 0)

\* variant: the processed items are sorted by count, highest first
OccurrenceBefore_Descending(a, b) == a.occurrence_count > b.occurrence_count

OccurrenceBefore(a, b) == a.occurrence_count < b.occurrence_count

SizeResults(cd, size, total_matches, strategy, odd) ==
  LET size_combinations == SizeCombinations(cd, size)
      occurred_combos == OccurredCombos(size_combinations)
      never_occurred_combos == NeverOccurredCombos(size_combinations)
      occurred_candidates == _get_display_candidates(occurred_combos, odd)
      never_occurred_candidates ==
        Prefix(never_occurred_combos, MAX_RESULTS_PER_CATEGORY)
      processed_occurred ==
        _process_combination_list(occurred_candidates, total_matches, strategy, odd)
      processed_never_occurred ==
        _process_combination_list(never_occurred_candidates, total_matches,
                                  strategy, odd)
      processed_occurred_sorted == SortedBy(processed_occurred, OccurrenceBefore)
      max_display == IF odd THEN Len(processed_occurred_sorted)
                     ELSE MAX_RESULTS_PER_CATEGORY
  IN IF size_combinations = <<>> THEN _get_empty_size_results
     ELSE [never_occurred |->
             Prefix(processed_never_occurred, MAX_RESULTS_PER_CATEGORY),
           least_occurred |-> Prefix(processed_occurred_sorted, max_display),
           most_occurred |->
             Reversed(Suffix(processed_occurred_sorted, max_display)),
           total_combinations |-> Len(size_combinations),
           occurred_count |-> Len(occurred_combos),
           never_occurred_count |-> Len(never_occurred_combos)]

Sizes == MIN_EVENTS_COMBINATION..MAX_EVENTS_COMBINATION

SizeSeq == [i \in 1..(MAX_EVENTS_COMBINATION - MIN_EVENTS_COMBINATION + 1) |->
              MIN_EVENTS_COMBINATION + i - 1]

FrequencyResults(cd, total_matches, strategy, odd) ==
  LET all_occurred_candidates ==
        Concat([i \in 1..Len(SizeSeq) |->
                  _get_display_candidates(
                    OccurredCombos(SizeCombinations(cd, SizeSeq[i])), odd)])
      all_never_occurred_candidates ==
        Concat([i \in 1..Len(SizeSeq) |->
                  Prefix(NeverOccurredCombos(SizeCombinations(cd, SizeSeq[i])),
                         MAX_RESULTS_PER_CATEGORY)])
      overall_occurred ==
        _process_combination_list(
          _get_overall_display_candidates(all_occurred_candidates, odd),
          total_matches, strategy, odd)
      overall_never_occurred ==
        _process_combination_list(
          Prefix(all_never_occurred_candidates, MAX_RESULTS_PER_CATEGORY),
          total_matches, strategy, odd)
      max_display == IF odd THEN Len(overall_occurred)
                     ELSE MAX_RESULTS_PER_CATEGORY
  IN [mode |-> "frequency",
      organized_results |->
        [size \in Sizes |-> SizeResults(cd, size, total_matches, strategy, odd)],
      never_occurred |-> Prefix(overall_never_occurred, MAX_RESULTS_PER_CATEGORY),
      least_occurred |-> Prefix(overall_occurred, max_display),
      most_occurred |-> Suffix(overall_occurred, max_display),
      stats |-> _calculate_stats_from_raw(all_occurred_candidates,
                                          all_never_occurred_candidates)]

\* variant: the valuable combinations are sorted lowest value first
MoreValuableBefore_Ascending(a, b) ==
  FracLess(a.odds_info.value_indicator, b.odds_info.value_indicator)

\* key (value_indicator, occurrence_count), reverse=True
MoreValuableBefore(a, b) ==
  \/ FracLess(b.odds_info.value_indicator, a.odds_info.value_indicator)
  \/ /\ ~FracLess(a.odds_info.value_indicator, b.odds_info.value_indicator)
     /\ b.occurrence_count < a.occurrence_count

\* key (value_indicator, -occurrence_count)
LessValuableBefore(a, b) ==
  \/ FracLess(a.odds_info.value_indicator, b.odds_info.value_indicator)
  \/ /\ ~FracLess(b.odds_info.value_indicator, a.odds_info.value_indicator)
     /\ b.occurrence_count < a.occurrence_count

ValueResults(cd, total_matches, strategy, odd) ==
  LET sizes == GroupKeys([i \in 1..Len(cd) |-> Len(cd[i][1])], {})
      value_results ==
        Concat([i \in 1..Len(sizes) |->
                  _process_combination_list(SizeCombinations(cd, sizes[i]),
                                            total_matches, strategy, odd)])
      valuable == SelectSeq(value_results,
                            LAMBDA x : /\ x.odds_info.odds_calculated
                                       /\ x.odds_info.is_valuable
                                       /\ x.odds_info.value_indicator.num > 0)
      valuable_sorted == SortedBy(valuable, MoreValuableBefore)
      max_display == IF odd THEN Len(valuable_sorted)
                     ELSE MAX_RESULTS_PER_CATEGORY
      most_valuable == Prefix(valuable_sorted, max_display)
      least_valuable ==
        Prefix(SortedBy(valuable_sorted, LessValuableBefore), max_display)
  IN IF valuable = <<>>
     THEN [mode |-> "value", organized_results |-> <<>>, most_valuable |-> <<>>,
           least_valuable |-> <<>>, stats |-> <<>>]
     ELSE [mode |-> "value", organized_results |-> <<>>,
           most_valuable |-> most_valuable,
           least_valuable |-> least_valuable,
           stats |-> [total_value_bets |-> Len(valuable_sorted),
                      highest_value |-> most_valuable[1].odds_info.value_indicator,
                      lowest_value |-> least_valuable[1].odds_info.value_indicator]]

_prepare_final_results_lazy(cd, total_matches, strategy, odd) ==
  IF ~odd THEN FrequencyResults(cd, total_matches, strategy, odd)
  ELSE ValueResults(cd, total_matches, strategy, odd)

\* the tail of _analyze_matches_optimized: every batch is processed
Rank ==
  /\ pc = "batch"
  /\ batch_start >= Len(matches)
  /\ final_results' =
       _prepare_final_results_lazy(
         final_combinations_with_tuples(global_combinations_dict),
         Len(matches), combination_strategy, use_odd_info)
  /\ pc' = "done"
  /\ UNCHANGED <<matches, thread_count, combination_strategy, use_odd_info,
                 batch_start, tasks, dict_lock, global_combinations_dict,
                 error_log, evaluated, merged,
                 later_leagues, league_results, lock_acquisitions>>
  /\ UNCHANGED fetch_vars

\* variant: the tally is not reset between two league+seasons
NextLeague_NoReset ==
  /\ pc = "done"
  /\ later_leagues # <<>>
  /\ league_results' = Append(league_results, final_results)
  /\ matches' = Head(later_leagues)
  /\ later_leagues' = Tail(later_leagues)
  /\ pc' = "batch"
  /\ batch_start' = 0
  /\ error_log' = 0
  /\ final_results' = NoResults
  /\ evaluated' = [i \in 1..Len(Head(later_leagues)) |-> <<"pending">>]
  /\ merged' = {}
  /\ lock_acquisitions' = 0
  /\ UNCHANGED <<thread_count, combination_strategy, use_odd_info, tasks,
                 dict_lock, global_combinations_dict>>
  /\ UNCHANGED fetch_vars

\* analyze_matches, lines 91-105: the result of the group just analysed is
\* stored and the loop goes on with the next league+season, whose tally
\* starts empty (line 98); the history variables and the count of logged
\* sub-batch errors are those of the group under analysis
NextLeague ==
  /\ pc = "done"
  /\ later_leagues # <<>>
  /\ league_results' = Append(league_results, final_results)
  /\ matches' = Head(later_leagues)
  /\ later_leagues' = Tail(later_leagues)
  /\ global_combinations_dict' = EmptyDict
  /\ pc' = "batch"
  /\ batch_start' = 0
  /\ error_log' = 0
  /\ final_results' = NoResults
  /\ evaluated' = [i \in 1..Len(Head(later_leagues)) |-> <<"pending">>]
  /\ merged' = {}
  /\ lock_acquisitions' = 0
  /\ UNCHANGED <<thread_count, combination_strategy, use_odd_info, tasks,
                 dict_lock>>
  /\ UNCHANGED fetch_vars

Next ==
  \/ \E s \in StrategyNames : SetStrategy(s)
  \/ \E b \in BOOLEAN : SetUseOddInfo(b)
  \/ StartAnalysis
  \/ SubmitBatch
  \/ \E k \in 1..Len(tasks) : TaskStart(k)
  \/ \E k \in 1..Len(tasks) : ProcessMatch(k)
  \/ \E k \in 1..Len(tasks) : AcquireLock(k)
  \/ \E k \in 1..Len(tasks) : MergeRelease(k)
  \/ CollectBatch
  \/ Rank
  \/ NextLeague

Spec == Init /\ [][Next]_vars

\* The steps of the pool threads and of the main thread, for the fairness
\* conditions.  A step that counts a match, merges or ranks is named by the
\* variable it always changes (evaluated, dict_lock, pc): within Next these
\* are exactly the steps of ProcessMatch, MergeRelease and Rank, enabled in
\* the same states.
SchedulingStep ==
  \E k \in 1..Len(tasks) : TaskStart(k) \/ AcquireLock(k)

CountingStep ==
  \E k \in 1..Len(tasks) :
    /\ pc = "wait"
    /\ tasks[k].st = "running"
    /\ tasks[k].pos <= tasks[k].hi
    /\ evaluated' =
         [evaluated EXCEPT ![tasks[k].pos] =
            IF EvaluationRaises(matches[tasks[k].pos]) THEN <<"raised">>
            ELSE <<"returned",
                   _get_occurring_patterns_for_match(matches[tasks[k].pos])>>]

MergingStep ==
  \E k \in 1..Len(tasks) :
    /\ pc = "wait"
    /\ tasks[k].st = "merging"
    /\ dict_lock' = 0

RankingStep ==
  /\ pc = "batch"
  /\ batch_start >= Len(matches)
  /\ pc' = "done"

MainStep == SubmitBatch \/ CollectBatch \/ NextLeague

\* every pool thread that can take a step takes one, and so does the main
\* thread
Fairness ==
  /\ WF_vars(SchedulingStep)
  /\ WF_evaluated(CountingStep)
  /\ WF_dict_lock(MergingStep)
  /\ WF_vars(MainStep)
  /\ WF_pc(RankingStep)

\* Inputs of the runs followed to their end: lists of a match in which four
\* patterns fire and of matches that raise, whose place in the list decides
\* which workers fail
LiveKinds == {Mk("T", "T", "T", "T", "F"), BrokenMatch}

LiveBases ==
  {[i \in 1..p |-> IF i = p THEN b ELSE a] :
     p \in 1..MaxPeriod, a \in LiveKinds, b \in LiveKinds}

LiveMatchLists ==
  {[i \in 1..n |-> b[((i - 1) % Len(b)) + 1]] : n \in 1..MaxMatches, b \in LiveBases}

LiveLeagueLists ==
  {[i \in 1..n |-> m] : n \in 1..MaxLeagueMatches, m \in LiveKinds}

FairInit ==
  /\ \/ matches \in LiveMatchLists /\ later_leagues = <<>>
     \/ matches \in LiveLeagueLists
        /\ later_leagues \in {<<ms>> : ms \in LiveLeagueLists}
  /\ league_results = <<>>
  /\ lock_acquisitions = 0
  /\ thread_count \in 1..MaxThreads
  /\ combination_strategy = "full"
  /\ use_odd_info \in BOOLEAN
  /\ pc = "idle"
  /\ batch_start = 0
  /\ tasks = <<>>
  /\ dict_lock = 0
  /\ global_combinations_dict = EmptyDict
  /\ error_log = 0
  /\ final_results = NoResults
  /\ evaluated = [i \in 1..Len(matches) |-> <<"pending">>]
  /\ merged = {}
  /\ ClientIdle

FairNext ==
  \/ StartAnalysis
  \/ SubmitBatch
  \/ \E k \in 1..Len(tasks) : TaskStart(k)
  \/ \E k \in 1..Len(tasks) : ProcessMatch(k)
  \/ \E k \in 1..Len(tasks) : AcquireLock(k)
  \/ \E k \in 1..Len(tasks) : MergeRelease(k)
  \/ CollectBatch
  \/ Rank
  \/ NextLeague

\* the run under fair scheduling of the main thread and of the pool threads
FairSpec == FairInit /\ [][FairNext]_vars /\ Fairness

\* ------------------------------------------------------------------------
\* APIFootballClient and OrganizedCacheManager: the details of one match.
\* A response is None (the request failed) or the list under "response".
\* ------------------------------------------------------------------------
Failed == [ok |-> FALSE, response |-> <<>>]

Response(list) == [ok |-> TRUE, response |-> list]

\* an event of the fixtures/events response; elapsed 0 is a missing minute
Event(type, elapsed, is_home) ==
  [type |-> type, elapsed |-> elapsed, is_home |-> is_home]

EventKinds ==
  {Event("Yellow Card", 30, TRUE), Event("Red Card", 40, FALSE),
   Event("Yellow Card", 60, FALSE), Event("Goal", 70, TRUE),
   Event("Yellow Card", 0, TRUE)}

EventLists == UNION {[1..n -> EventKinds] : n \in 0..MaxEvents}

EventsResponses == {Failed} \cup {Response(events) : events \in EventLists}

\* the events _extract_half_stats counts for one team in one half
CountedEvents(events_data, types, first, is_home) ==
  Cardinality({i \in DOMAIN events_data :
                 /\ events_data[i].elapsed # 0
                 /\ (events_data[i].elapsed <= 45) = first
                 /\ events_data[i].type \in types
                 /\ events_data[i].is_home = is_home})

HalfOf(events_data, first) ==
  [home_goals |-> CountedEvents(events_data, {"Goal"}, first, TRUE),
   away_goals |-> CountedEvents(events_data, {"Goal"}, first, FALSE),
   home_cards |-> CountedEvents(events_data, {"Yellow Card", "Red Card"}, first, TRUE),
   away_cards |-> CountedEvents(events_data, {"Yellow Card", "Red Card"}, first, FALSE),
   home_corners |-> CountedEvents(events_data, {"Corner"}, first, TRUE),
   away_corners |-> CountedEvents(events_data, {"Corner"}, first, FALSE)]

\* APIFootballClient._extract_half_stats
_extract_half_stats(match, events_data) ==
  [match EXCEPT !.first_half = HalfOf(events_data, TRUE),
                !.second_half = HalfOf(events_data, FALSE)]

\* hasattr(half, name) and the attribute, else 0
AttrOrZero(half, name) == IF name \in DOMAIN half THEN half[name] ELSE 0

\* the sum both _first_half_cards and _second_half_cards return
HalfCards(half) ==
  LET home_yellow == AttrOrZero(half, "home_yellow_cards")
      home_red == AttrOrZero(half, "home_red_cards")
      away_yellow == AttrOrZero(half, "away_yellow_cards")
      away_red == AttrOrZero(half, "away_red_cards")
  IN home_yellow + (home_red * 2) + away_yellow + (away_red * 2)

_first_half_cards(match) == HalfCards(match.first_half)

_second_half_cards(match) == HalfCards(match.second_half)

\* the pattern first_half_over_0_5_cards (> 0.5 on an integer)
first_half_over_0_5_cards(match) == 2 * _first_half_cards(match) > 1

_card_shown_both_halves(match) ==
  _first_half_cards(match) > 0 /\ _second_half_cards(match) > 0

\* the pattern card_both_halves_yes
card_both_halves_yes(match) == _card_shown_both_halves(match)

StatisticsResponses ==
  {Failed, Response(<<>>), Response(<<"corner_kicks">>),
   Response(<<"corner_kicks", "fouls">>)}

\* OrganizedCacheManager.get_match_details: the entry when it has details,
\* else None (found = FALSE)
get_match_details(entry) ==
  [found |-> entry.present /\ entry.has_details, entry |-> entry]

\* OrganizedCacheManager.save_match_details: written only into an entry
\* that save_matches has made
save_match_details(entry, events, statistics) ==
  IF entry.present
  THEN [entry EXCEPT !.has_events = TRUE, !.events = events,
                     !.has_statistics = TRUE, !.statistics = statistics,
                     !.has_details = TRUE]
  ELSE entry

\* response.get("response", []) if response else []
ResponseList(response) == IF response.ok THEN response.response ELSE <<>>

\* get_matches on a cache without the league's matches: the fixtures are
\* requested and save_matches writes the entry of the match
SaveMatches ==
  /\ enrich_pc = "idle"
  /\ ~match_cache.present
  /\ match_cache' = BasicEntry
  /\ UNCHANGED <<enrich_pc, api_requests, match_data, stats_fetched>>
  /\ UNCHANGED analyzer_vars

\* _enrich_match_data up to the call of get_match_events
EnrichStart ==
  /\ enrich_pc = "idle"
  /\ LET match_details == get_match_details(match_cache)
     IN IF match_details.found /\ match_details.entry.has_details
        THEN /\ match_data' =
                  _extract_half_stats(
                    [NoData EXCEPT !.events = match_details.entry.events,
                                   !.statistics = match_details.entry.statistics,
                                   !.source = "cache"],
                    match_details.entry.events)
             /\ enrich_pc' = "done"
        ELSE /\ match_data' = NoData
             /\ enrich_pc' = "events"
  /\ api_requests' = <<>>
  /\ UNCHANGED <<match_cache, stats_fetched>>
  /\ UNCHANGED analyzer_vars

\* get_match_events, called by _enrich_match_data
GetMatchEvents(response) ==
  /\ enrich_pc = "events"
  /\ LET match_details == get_match_details(match_cache)
     IN IF match_details.found /\ match_details.entry.has_events
        THEN /\ match_data' = [match_data EXCEPT !.events = match_details.entry.events]
             /\ UNCHANGED <<match_cache, api_requests>>
        ELSE LET events_data == ResponseList(response)
                 existing_stats ==
                   IF match_details.found /\ match_details.entry.has_statistics
                   THEN match_details.entry.statistics ELSE <<>>
             IN /\ api_requests' = Append(api_requests, "fixtures/events")
                /\ match_cache' =
                     IF events_data # <<>>
                     THEN save_match_details(match_cache, events_data, existing_stats)
                     ELSE match_cache
                /\ match_data' = [match_data EXCEPT !.events = events_data]
  /\ enrich_pc' = "statistics"
  /\ UNCHANGED stats_fetched
  /\ UNCHANGED analyzer_vars

\* get_match_statistics, called by _enrich_match_data
GetMatchStatistics(response) ==
  /\ enrich_pc = "statistics"
  /\ LET match_details == get_match_details(match_cache)
     IN IF match_details.found /\ match_details.entry.has_statistics
        THEN /\ match_data' = [match_data EXCEPT
                                 !.statistics = match_details.entry.statistics,
                                 !.source = "statistics from cache"]
             /\ UNCHANGED <<match_cache, api_requests, stats_fetched>>
        ELSE LET stats_data == ResponseList(response)
                 existing_events ==
                   IF match_details.found /\ match_details.entry.has_events
                   THEN match_details.entry.events ELSE <<>>
             IN /\ api_requests' = Append(api_requests, "fixtures/statistics")
                /\ match_cache' =
                     IF stats_data # <<>>
                     THEN save_match_details(match_cache, existing_events, stats_data)
                     ELSE match_cache
                /\ stats_fetched' =
                     (stats_fetched \/ (stats_data # <<>> /\ match_cache.present))
                /\ match_data' = [match_data EXCEPT
                                    !.statistics = stats_data,
                                    !.source = "statistics from API"]
  /\ enrich_pc' = "half_stats"
  /\ UNCHANGED analyzer_vars

\* _extract_half_stats, called by _enrich_match_data on the events it got
ExtractHalfStats ==
  /\ enrich_pc = "half_stats"
  /\ match_data' = _extract_half_stats(match_data, match_data.events)
  /\ enrich_pc' = "done"
  /\ UNCHANGED <<match_cache, api_requests, stats_fetched>>
  /\ UNCHANGED analyzer_vars

\* the match is built; it may be parsed again later
EnrichEnd ==
  /\ enrich_pc = "done"
  /\ enrich_pc' = "idle"
  /\ UNCHANGED <<match_cache, api_requests, match_data, stats_fetched>>
  /\ UNCHANGED analyzer_vars

ClientInit ==
  /\ matches = <<>>
  /\ later_leagues = <<>>
  /\ league_results = <<>>
  /\ lock_acquisitions = 0
  /\ thread_count = 1
  /\ combination_strategy = "full"
  /\ use_odd_info = TRUE
  /\ pc = "idle"
  /\ batch_start = 0
  /\ tasks = <<>>
  /\ dict_lock = 0
  /\ global_combinations_dict = EmptyDict
  /\ error_log = 0
  /\ final_results = NoResults
  /\ evaluated = <<>>
  /\ merged = {}
  /\ match_cache \in {AbsentEntry, BasicEntry}
  /\ enrich_pc = "idle"
  /\ api_requests = <<>>
  /\ match_data = NoData
  /\ stats_fetched = FALSE

ClientNext ==
  \/ SaveMatches
  \/ EnrichStart
  \/ \E response \in EventsResponses : GetMatchEvents(response)
  \/ \E response \in StatisticsResponses : GetMatchStatistics(response)
  \/ ExtractHalfStats
  \/ EnrichEnd

ClientSpec == ClientInit /\ [][ClientNext]_vars

\* ========================================================================
\* Properties
\* ========================================================================

\* the names that fired in a match, read off the condition outcomes
ActiveSet(m) ==
  IF m.ok
  THEN {all_patterns[j].name :
          j \in {j \in 1..Len(all_patterns) : m.out[all_patterns[j].cond] = "T"}}
  ELSE {}

Members(key) == Range(Split(key))

TallyCount(key) == DictGet(global_combinations_dict, key, 0)

\* every sub-batch of a run over n matches with t workers
RECURSIVE AllSubBatchesFrom(_, _, _)
AllSubBatchesFrom(n, t, start) ==
  IF start >= n THEN <<>>
  ELSE SubBatches(start + 1, Min2(start + BatchSize(n, t), n), t)
       \o AllSubBatchesFrom(n, t, start + BatchSize(n, t))

AllSubBatches == AllSubBatchesFrom(Len(matches), thread_count, 0)

SubBatchFails(sb) == \E i \in sb[1]..sb[2] : ~matches[i].ok

\* the matches of the sub-batches in which no match raises
SurvivingMatches ==
  UNION {sb[1]..sb[2] : sb \in {x \in Range(AllSubBatches) : ~SubBatchFails(x)}}

\* the tally of a set of matches, counted one match after the other
RECURSIVE TallyOfMatches(_, _, _)
TallyOfMatches(idx, i, d) ==
  IF i > Len(matches) THEN d
  ELSE TallyOfMatches(idx, i + 1,
         IF i \in idx
         THEN MergeLocal(d, d, CountMatch(combination_strategy, EmptyDict, matches[i]))
         ELSE d)

\* C1: the final tally does not depend on the worker count: it is the tally
\* the same match list gives with THREAD_COUNT = 1
C1_WorkerCountInvariance ==
  pc = "done" =>
    CountsOf(global_combinations_dict)
      = CountsOf(SerialRun(combination_strategy, matches, 1))

\* C2: for a fixed match list, strategy and worker count, every interleaving
\* of the workers ends with the counts of the serial schedule
C2_SchedulingDeterminism ==
  pc = "done" =>
    CountsOf(global_combinations_dict)
      = CountsOf(SerialRun(combination_strategy, matches, thread_count))

\* a finished run with two workers whose merges did not happen in submission
\* order (the insertion order of the tally differs from the serial one)
C2_Witness ==
  /\ pc = "done"
  /\ thread_count >= 2
  /\ Len(global_combinations_dict) >= 2
  /\ global_combinations_dict
       # SerialRun(combination_strategy, matches, thread_count)

\* C3: under FULL the count of every combination equals the number of
\* matches whose active set contains all its members, and every combination
\* of an allowed size contained in some active set is in the tally
C3_FullCountsMatches ==
  (pc = "done" /\ combination_strategy = "full") =>
    /\ \A key \in DictKeys(global_combinations_dict) :
         TallyCount(key) =
           Cardinality({i \in 1..Len(matches) :
                          Members(key) \subseteq ActiveSet(matches[i])})
    /\ \A c \in SUBSET PatternNames :
         (/\ Cardinality(c) \in MIN_EVENTS_COMBINATION..MAX_EVENTS_COMBINATION
          /\ \E i \in 1..Len(matches) : c \subseteq ActiveSet(matches[i]))
         => \E key \in DictKeys(global_combinations_dict) : Members(key) = c

\* the valid combinations of catalogue patterns of a size under a strategy
ValidCombinations(strategy, size) ==
  {c \in SUBSET PatternNames :
     /\ Cardinality(c) = size
     /\ strategy = "by_market" =>
          \A a, b \in c : a # b => MarketOf[a] # MarketOf[b]
     /\ strategy = "by_event_type" =>
          \A a, b \in c : a # b => EventTypeOf[a] # EventTypeOf[b]}

ZeroCountCombinations(size) ==
  {c \in ValidCombinations(combination_strategy, size) :
     \A key \in DictKeys(global_combinations_dict) :
       Members(key) = c => TallyCount(key) = 0}

ItemNames(item) == {item.events[j].name : j \in 1..Len(item.events)}

\* C4: in the frequency-mode result the never-occurred list of a size holds
\* valid combinations with zero count only, and all of them up to max_display
C4_NeverOccurredCorrect ==
  (pc = "done" /\ final_results.mode = "frequency") =>
    \A size \in MIN_EVENTS_COMBINATION..MAX_EVENTS_COMBINATION :
      LET never == final_results.organized_results[size].never_occurred
      IN /\ \A j \in 1..Len(never) :
              /\ ItemNames(never[j]) \in ZeroCountCombinations(size)
              /\ never[j].occurrence_count = 0
         /\ Len(never) = Min2(MAX_RESULTS_PER_CATEGORY,
                              Cardinality(ZeroCountCombinations(size)))

\* C5: a count is only ever raised for a combination whose members all fired
\* in the match being counted, and the shared tally only grows by the local
\* counts of the worker that merges
C5_ActiveSetBound ==
  [][/\ \A k \in (DOMAIN tasks) \cap (DOMAIN tasks') :
          \A key \in DictKeys(tasks'[k].local) :
            DictGet(tasks'[k].local, key, 0) > DictGet(tasks[k].local, key, 0)
            => /\ tasks[k].st = "running"
               /\ tasks[k].pos <= tasks[k].hi
               /\ Members(key) \subseteq ActiveSet(matches[tasks[k].pos])
     /\ \A key \in DictKeys(global_combinations_dict') :
          DictGet(global_combinations_dict', key, 0) > TallyCount(key)
          => \E k \in DOMAIN tasks :
               /\ tasks[k].st = "merging"
               /\ DictGet(global_combinations_dict', key, 0)
                    = TallyCount(key) + DictGet(tasks[k].local, key, 0)
               /\ \E i \in tasks[k].lo..tasks[k].hi :
                    Members(key) \subseteq ActiveSet(matches[i])
    ]_vars

\* a match with a raising and a non-firing pattern has been counted and merged
C5_Witness ==
  /\ global_combinations_dict # EmptyDict
  /\ \E i \in merged :
       /\ "E" \in Range(matches[i].out)
       /\ ActiveSet(matches[i]) # {}
       /\ ActiveSet(matches[i]) # PatternNames
       /\ \E key \in DictKeys(global_combinations_dict) :
            Members(key) \subseteq ActiveSet(matches[i])

\* the market labels / event types carried by the catalogue entries of a name
MarketsOfName(n) ==
  {all_patterns[j].market : j \in {j \in 1..Len(all_patterns) : all_patterns[j].name = n}}

EventTypesOfName(n) ==
  {all_patterns[j].event_type :
     j \in {j \in 1..Len(all_patterns) : all_patterns[j].name = n}}

KeyLabelsDistinct(key, LabelsOf(_)) ==
  LET combo == Split(key)
  IN \A a, b \in 1..Len(combo) : a # b => LabelsOf(combo[a]) \cap LabelsOf(combo[b]) = {}

AllDicts ==
  {global_combinations_dict} \cup {tasks[k].local : k \in DOMAIN tasks}

\* C6: under by_market no key holds two names of the same market, under
\* by_event_type no key holds two names of the same event type
C6_LabelValidity ==
  /\ combination_strategy = "by_market" =>
       \A d \in AllDicts : \A key \in DictKeys(d) : KeyLabelsDistinct(key, MarketsOfName)
  /\ combination_strategy = "by_event_type" =>
       \A d \in AllDicts : \A key \in DictKeys(d) : KeyLabelsDistinct(key, EventTypesOfName)

\* a by_market tally fed by a match in which two patterns of one market fired
C6_Witness ==
  /\ combination_strategy = "by_market"
  /\ pc = "done"
  /\ global_combinations_dict # EmptyDict
  /\ \E i \in merged :
       \E a, b \in ActiveSet(matches[i]) : a # b /\ MarketOf[a] = MarketOf[b]

\* every display item of the final results
ResultItems(r) ==
  IF r.mode = "value" THEN Range(r.most_valuable) \cup Range(r.least_valuable)
  ELSE IF r.mode = "frequency"
  THEN Range(r.never_occurred) \cup Range(r.least_occurred) \cup Range(r.most_occurred)
       \cup UNION {Range(r.organized_results[size].never_occurred)
                   \cup Range(r.organized_results[size].least_occurred)
                   \cup Range(r.organized_results[size].most_occurred) :
                   size \in DOMAIN r.organized_results}
  ELSE {}

\* C7: every ranked item has percentage = 100 * count / total within [0, 100],
\* and no count in the tally exceeds the number of matches analysed
C7_PercentageBound ==
  (pc = "done" /\ Len(matches) > 0) =>
    /\ \A item \in ResultItems(final_results) :
         /\ item.percentage.den = Len(matches)
         /\ item.percentage.num = 100 * item.occurrence_count
         /\ 0 <= item.percentage.num
         /\ item.percentage.num <= 100 * item.percentage.den
    /\ \A key \in DictKeys(global_combinations_dict) : TallyCount(key) <= Len(matches)

\* the names of the catalogue entries whose condition is true, in order
FiredNames(m) ==
  LET idx == SelectSeq([j \in 1..Len(all_patterns) |-> j],
                       LAMBDA j : m.out[all_patterns[j].cond] = "T")
  IN [j \in 1..Len(idx) |-> all_patterns[idx[j]].name]

\* C8: a condition that raises only removes its pattern from the active set:
\* the evaluator returns the names of all the patterns that fired, before
\* and after the raising one, and the worker goes on
C8_RaisingPatternExcluded ==
  /\ \A i \in 1..Len(matches) :
       (matches[i].ok /\ evaluated[i] # <<"pending">>)
       => evaluated[i] = <<"returned", FiredNames(matches[i])>>
  /\ \A k \in DOMAIN tasks :
       tasks[k].st = "failed" => \E i \in tasks[k].lo..tasks[k].hi : ~matches[i].ok
  /\ pc = "done" =>
       \A i \in SurvivingMatches : evaluated[i] # <<"pending">> /\ i \in merged

\* a match with raising conditions followed by firing ones was evaluated and
\* its counts merged
C8_Witness ==
  \E i \in merged :
    /\ matches[i].ok
    /\ evaluated[i][1] = "returned"
    /\ \E a, b \in 1..Len(all_patterns) :
         /\ a < b
         /\ matches[i].out[all_patterns[a].cond] = "E"
         /\ matches[i].out[all_patterns[b].cond] = "T"
         /\ all_patterns[b].name \in Range(evaluated[i][2])

\* C9: a match that raises drops only its own contribution: the final tally
\* is the tally of all the other matches
C9_OnlyFailingMatchDropped ==
  pc = "done" =>
    CountsOf(global_combinations_dict)
      = CountsOf(TallyOfMatches({i \in 1..Len(matches) : matches[i].ok}, 1, EmptyDict))

\* C10: a failing worker task is caught and logged, none of its counts are
\* merged (the final tally is the tally of the matches of the other
\* sub-batches), every other sub-batch is merged, and the run ranks
C10_FailedSubBatchLostWhole ==
  /\ merged \subseteq SurvivingMatches
  /\ \A k \in DOMAIN tasks :
       tasks[k].st = "failed" => (tasks[k].lo..tasks[k].hi) \cap merged = {}
  /\ pc = "done" =>
       /\ CountsOf(global_combinations_dict)
            = CountsOf(TallyOfMatches(merged, 1, EmptyDict))
       /\ merged = SurvivingMatches
       /\ error_log = Cardinality({j \in 1..Len(AllSubBatches) :
                                     SubBatchFails(AllSubBatches[j])})
       /\ final_results # NoResults

\* a finished run in which a sub-batch failed after counting a match, while
\* a later batch was merged and the result ranked
C10_Witness ==
  /\ pc = "done"
  /\ error_log > 0
  /\ final_results # NoResults
  /\ \E sb \in Range(AllSubBatches) :
       /\ SubBatchFails(sb)
       /\ matches[sb[1]].ok
       /\ ActiveSet(matches[sb[1]]) # {}
       /\ \E i \in merged : i > sb[2]

\* C11: lock discipline: the shared tally is only written by the worker that
\* holds dict_lock (or by the main thread while no worker exists), at most
\* one worker is inside the merge, the lock is never held by a worker that is
\* still evaluating matches, and a local dict is written by its own worker
C11_LockDiscipline ==
  [][/\ global_combinations_dict' # global_combinations_dict
          => \/ \E k \in DOMAIN tasks : tasks[k].st = "merging" /\ dict_lock = k
             \/ pc \in {"idle", "done"}
     /\ \A k \in DOMAIN tasks' : tasks'[k].st = "merging" => dict_lock' = k
     /\ dict_lock' # 0 =>
          /\ dict_lock' \in DOMAIN tasks'
          /\ tasks'[dict_lock'].st = "merging"
          /\ tasks'[dict_lock'].pos > tasks'[dict_lock'].hi
     /\ \A k \in (DOMAIN tasks) \cap (DOMAIN tasks') :
          (pc = "wait" /\ tasks'[k].local # tasks[k].local)
          => /\ tasks[k].st = "running"
             /\ \A j \in (DOMAIN tasks) \ {k} : tasks'[j] = tasks[j]
    ]_vars

\* one worker is merging under the lock while another one, done with its
\* matches, waits for it
C11_Witness ==
  \E k, j \in DOMAIN tasks :
    /\ k # j
    /\ tasks[k].st = "merging" /\ dict_lock = k
    /\ tasks[k].local # EmptyDict
    /\ tasks[j].st = "running" /\ tasks[j].pos > tasks[j].hi
    /\ tasks[j].local # EmptyDict

\* C12: barrier before ranking: the step that ranks finds no worker task
\* left, the lock free, every batch submitted and every sub-batch without a
\* raising match merged; the tally it reads is the one the result is made
\* of, and nothing is merged into the tally once the run has ranked
C12_BarrierBeforeRanking ==
  [][/\ (pc # "done" /\ pc' = "done")
          => /\ tasks = <<>>
             /\ dict_lock = 0
             /\ batch_start >= Len(matches)
             /\ merged = SurvivingMatches
             /\ \A i \in SurvivingMatches : evaluated[i] # <<"pending">>
             /\ global_combinations_dict' = global_combinations_dict
             /\ final_results' =
                  _prepare_final_results_lazy(
                    final_combinations_with_tuples(global_combinations_dict),
                    Len(matches), combination_strategy, use_odd_info)
     /\ (pc = "done" /\ pc' = "done")
          => /\ global_combinations_dict' = global_combinations_dict
             /\ merged' = merged
             /\ tasks' = tasks
    ]_vars

\* a run of two batches with two workers each has ranked a non-empty tally
C12_Witness ==
  /\ pc = "done"
  /\ thread_count >= 2
  /\ Len(matches) >= 4 * thread_count
  /\ final_results # NoResults
  /\ Cardinality(merged) >= 4 * thread_count
  /\ global_combinations_dict # EmptyDict

\* C13: a strategy name that is none of the three recognised ones is
\* rejected before any analysis work: no match is evaluated, nothing is
\* counted and no result is produced under such a name
C13_UnknownStrategyRejected ==
  combination_strategy \notin Strategies =>
    /\ \A i \in 1..Len(matches) : evaluated[i] = <<"pending">>
    /\ global_combinations_dict = EmptyDict
    /\ final_results = NoResults

\* C14: the strategy applied to a match is the configured one
\* (AnalysisConfig.COMBINATION_STRATEGY): what a worker has counted for the
\* first match of its sub-batch is what the configured generator yields
C14_ConfiguredStrategyApplied ==
  \A k \in DOMAIN tasks :
    (tasks[k].st = "running" /\ tasks[k].pos = tasks[k].lo + 1)
    => tasks[k].local = CountMatch(COMBINATION_STRATEGY, EmptyDict, matches[tasks[k].lo])

\* C17: the tally is fresh per league+season: the counting of a group
\* starts from an empty tally, and the tally a group is ranked from is the
\* tally of that group's matches alone
C17_FreshTallyPerLeague ==
  /\ (pc = "batch" /\ batch_start = 0) => global_combinations_dict = EmptyDict
  /\ (pc = "done" /\ league_results # <<>>) =>
       CountsOf(global_combinations_dict)
         = CountsOf(SerialRun(combination_strategy, matches, thread_count))
  /\ (pc = "done" /\ later_leagues = <<>>) => Len(league_results) \in {0, 1}

\* the second of two league+seasons has been ranked, both with counts
C17_Witness ==
  /\ pc = "done"
  /\ league_results # <<>>
  /\ ResultItems(league_results[1]) # {}
  /\ global_combinations_dict # EmptyDict
  /\ \E it \in ResultItems(league_results[1]) :
       Join([j \in 1..Len(it.events) |-> it.events[j].name])
         \notin DictKeys(global_combinations_dict)

C16_DistinctNames ==
  /\ \A key \in DictKeys(global_combinations_dict) :
       Cardinality(Members(key)) = Len(Split(key))
  /\ \A i \in 1..Len(matches) :
       evaluated[i][1] = "returned" =>
         Cardinality(Range(evaluated[i][2])) = Len(evaluated[i][2])

\* the tuple key of a display item
ItemKey(item) == [j \in 1..Len(item.events) |-> item.events[j].name]

\* the tally with tuple keys, as handed to the ranker
RankedTally == final_combinations_with_tuples(global_combinations_dict)

\* the positions in a tally of the positive-count combinations of a size
OccurredOfSize(tally, size) ==
  {i \in 1..Len(tally) : Len(tally[i][1]) = size /\ tally[i][2] > 0}

\* list is made of n distinct combinations out of the positions pool of the
\* tally, each with its count
ListedFrom(tally, list, pool, n) ==
  /\ Len(list) = n
  /\ \A a \in 1..Len(list) :
       \E i \in pool : /\ tally[i][1] = ItemKey(list[a])
                       /\ tally[i][2] = list[a].occurrence_count
  /\ \A a, b \in 1..Len(list) : a # b => ItemKey(list[a]) # ItemKey(list[b])

\* list holds the lowest counts of the pool, in ascending order
LowestAscending(tally, list, pool) ==
  /\ \A a, b \in 1..Len(list) :
       a < b => list[a].occurrence_count <= list[b].occurrence_count
  /\ \A i \in pool :
       (\A a \in 1..Len(list) : ItemKey(list[a]) # tally[i][1])
       => \A a \in 1..Len(list) : list[a].occurrence_count <= tally[i][2]

\* list holds the highest counts of the pool, highest first
HighestDescending(tally, list, pool) ==
  /\ \A a, b \in 1..Len(list) :
       a < b => list[a].occurrence_count >= list[b].occurrence_count
  /\ \A i \in pool :
       (\A a \in 1..Len(list) : ItemKey(list[a]) # tally[i][1])
       => \A a \in 1..Len(list) : list[a].occurrence_count >= tally[i][2]

\* C18: frequency mode, per size: least_occurred is the max_display lowest
\* positive counts in ascending order, most_occurred the max_display highest
\* ones listed highest first, and no list is longer than max_display
C18_FrequencyRankingPerSize ==
  (pc = "done" /\ final_results.mode = "frequency") =>
    LET tally == RankedTally
    IN \A size \in Sizes :
         LET pool == OccurredOfSize(tally, size)
             n == Min2(MAX_RESULTS_PER_CATEGORY, Cardinality(pool))
             res == final_results.organized_results[size]
         IN /\ ListedFrom(tally, res.least_occurred, pool, n)
            /\ ListedFrom(tally, res.most_occurred, pool, n)
            /\ LowestAscending(tally, res.least_occurred, pool)
            /\ HighestDescending(tally, res.most_occurred, pool)
            /\ Len(res.never_occurred) <= MAX_RESULTS_PER_CATEGORY

\* a frequency-mode result with a size bucket of more than 2 * max_display
\* combinations whose counts are not all the same
C18_Witness ==
  /\ pc = "done"
  /\ final_results.mode = "frequency"
  /\ LET tally == RankedTally
     IN \E size \in Sizes :
          LET pool == OccurredOfSize(tally, size)
              res == final_results.organized_results[size]
          IN /\ Cardinality(pool) > 2 * MAX_RESULTS_PER_CATEGORY
             /\ \E i, j \in pool : tally[i][2] < tally[j][2]
             /\ res.least_occurred[1].occurrence_count
                  < res.most_occurred[1].occurrence_count

\* the positions in a tally of all positive-count combinations
OccurredOverall(tally) == {i \in 1..Len(tally) : tally[i][2] > 0}

\* C19: the overall lists follow the rule of the per-size lists: overall
\* least_occurred is the max_display lowest positive counts across all sizes
\* in ascending order, overall most_occurred the max_display highest counts
\* across all sizes listed highest first
C19_OverallRanking ==
  (pc = "done" /\ final_results.mode = "frequency") =>
    LET tally == RankedTally
        pool == OccurredOverall(tally)
        n == Min2(MAX_RESULTS_PER_CATEGORY, Cardinality(pool))
    IN /\ ListedFrom(tally, final_results.least_occurred, pool, n)
       /\ ListedFrom(tally, final_results.most_occurred, pool, n)
       /\ LowestAscending(tally, final_results.least_occurred, pool)
       /\ HighestDescending(tally, final_results.most_occurred, pool)
       /\ Len(final_results.never_occurred) <= MAX_RESULTS_PER_CATEGORY

\* the sum of the counts of the positions S of a tally
RECURSIVE SumOver(_, _)
SumOver(tally, S) ==
  IF S = {} THEN 0
  ELSE LET i == CHOOSE x \in S : TRUE IN tally[i][2] + SumOver(tally, S \ {i})

\* C20: the reported statistics are over all combinations of the tally:
\* occurred_count is the number of combinations with a positive count,
\* never_occurred_count the number with count zero, min, max and avg are the
\* minimum, maximum and arithmetic mean of all positive counts, whatever the
\* size of the tally relative to max_display, and all three are 0 when no
\* combination has a positive count
C20_StatsOverAllCombinations ==
  (pc = "done" /\ final_results.mode = "frequency") =>
    LET tally == RankedTally
        pool == OccurredOverall(tally)
        st == final_results.stats
        n == Cardinality(pool)
        counts == {tally[i][2] : i \in pool}
    IN /\ st.occurred_count = n
       /\ st.never_occurred_count = Len(tally) - n
       /\ IF n = 0
          THEN /\ st.min_occurrence = 0
               /\ st.max_occurrence = 0
               /\ st.avg_occurrence.num = 0
          ELSE /\ st.min_occurrence \in counts
               /\ \A c \in counts : st.min_occurrence <= c
               /\ st.max_occurrence \in counts
               /\ \A c \in counts : st.max_occurrence >= c
               /\ st.avg_occurrence.num * n
                    = SumOver(tally, pool) * st.avg_occurrence.den

\* the product of the odds of the members of a tally key, in twentieths each
RECURSIVE OddsProduct(_)
OddsProduct(names) ==
  IF names = <<>> THEN 1
  ELSE find_odds_for_pattern[Head(names)] * OddsProduct(Tail(names))

RECURSIVE Pow20(_)
Pow20(n) == IF n = 0 THEN 1 ELSE 20 * Pow20(n - 1)

\* count/total exceeds the product of 1/odds over the members of a key
ObservedAboveImplied(names, count, total) ==
  count * OddsProduct(names) > total * Pow20(Len(names))

\* C21: the value indicator of a combination is its observed share
\* count/total minus the product of 1/odds over its members, is_valuable is
\* true exactly when the indicator is strictly positive: a combination of
\* the tally is listed as valuable exactly when its observed share exceeds
\* its implied probability
C21_ValueIndicator ==
  (pc = "done" /\ final_results.mode = "value" /\ Len(matches) > 0) =>
    LET tally == RankedTally
        total == Len(matches)
    IN /\ \A item \in ResultItems(final_results) :
            LET vi == item.odds_info.value_indicator
                names == ItemKey(item)
                P == OddsProduct(names)
                H == Pow20(Len(names))
            IN /\ item.odds_info.odds_calculated
               /\ vi.den > 0
               /\ LET gap == Frac(item.occurrence_count * P - total * H,
                                   total * P)
                  IN ~FracLess(vi, gap) /\ ~FracLess(gap, vi)
               /\ item.odds_info.is_valuable <=> vi.num > 0
               /\ item.odds_info.is_valuable
       /\ \A i \in 1..Len(tally) :
            ObservedAboveImplied(tally[i][1], tally[i][2], total)
            <=> \E item \in Range(final_results.most_valuable) :
                  /\ ItemKey(item) = tally[i][1]
                  /\ item.occurrence_count = tally[i][2]

\* a value-mode result in which one combination of the tally is listed as
\* valuable and another one, whose share is below its implied probability,
\* is not
C21_Witness ==
  /\ pc = "done"
  /\ final_results.mode = "value"
  /\ final_results.most_valuable # <<>>
  /\ LET tally == RankedTally
     IN \E i \in 1..Len(tally) :
          /\ ~ObservedAboveImplied(tally[i][1], tally[i][2], Len(matches))
          /\ \A item \in Range(final_results.most_valuable) :
               ItemKey(item) # tally[i][1]

\* two members of a display item have the same market and the same event type
HasNearDuplicatePair(item) ==
  \E a, b \in 1..Len(item.events) :
    /\ a # b
    /\ item.events[a].market = item.events[b].market
    /\ item.events[a].event_type = item.events[b].event_type

\* C22: a combination holding two patterns of identical market and event
\* type gets a correlation factor below 1: the implied probability its value
\* indicator is made of is below the product of 1/odds over its members
C22_CorrelationDiscount ==
  (pc = "done" /\ final_results.mode = "value") =>
    \A item \in ResultItems(final_results) :
      HasNearDuplicatePair(item) =>
        FracLess(item.odds_info.bookmaker_probability,
                 Frac(Pow20(Len(item.events)), OddsProduct(ItemKey(item))))

\* the value indicator of entry i of a tally, as a fraction of 1
GapOf(tally, i, total) ==
  Frac(tally[i][2] * OddsProduct(tally[i][1]) - total * Pow20(Len(tally[i][1])),
       total * OddsProduct(tally[i][1]))

FracEq(a, b) == ~FracLess(a, b) /\ ~FracLess(b, a)

C24_ValueListsBounded ==
  (pc = "done" /\ final_results.mode = "value") =>
    /\ Len(final_results.most_valuable) <= MAX_RESULTS_PER_CATEGORY
    /\ Len(final_results.least_valuable) <= MAX_RESULTS_PER_CATEGORY

\* the subsets of the active set of a match of an allowed size whose members
\* have pairwise distinct labels
DistinctLabelSubsets(m, labelOf) ==
  {c \in SUBSET ActiveSet(m) :
     /\ Cardinality(c) \in MIN_EVENTS_COMBINATION..MAX_EVENTS_COMBINATION
     /\ \A a, b \in c : a # b => labelOf[a] # labelOf[b]}

\* the local dict of a worker that has counted one match holds every subset
\* of DistinctLabelSubsets once and nothing else
GeneratedExactlyOnce(local, m, labelOf) ==
  /\ \A key \in DictKeys(local) :
       /\ DictGet(local, key, 0) = 1
       /\ Cardinality(Members(key)) = Len(Split(key))
       /\ Members(key) \in DistinctLabelSubsets(m, labelOf)
  /\ \A c \in DistinctLabelSubsets(m, labelOf) :
       Cardinality({key \in DictKeys(local) : Members(key) = c}) = 1

\* C25: under by_event_type (by_market) the combinations generated for a
\* match are exactly the subsets of its active set, of each allowed size,
\* whose members have pairwise distinct event types (markets), each subset
\* generated exactly once
C25_DistinctLabelCombinations ==
  \A k \in DOMAIN tasks :
    (tasks[k].st = "running" /\ tasks[k].pos = tasks[k].lo + 1) =>
      /\ combination_strategy = "by_event_type" =>
           GeneratedExactlyOnce(tasks[k].local, matches[tasks[k].lo], EventTypeOf)
      /\ combination_strategy = "by_market" =>
           GeneratedExactlyOnce(tasks[k].local, matches[tasks[k].lo], MarketOf)

\* the sub-batches of the run that end at or before match n and hold no
\* raising match
CompletedSubBatches(sbs, n) ==
  {j \in 1..Len(sbs) : sbs[j][2] <= n /\ ~SubBatchFails(sbs[j])}

\* C26: a worker enters the locked block once, after the last match of its
\* sub-batch: the number of lock acquisitions of a run is the number of
\* worker tasks that have come to their merge, one per sub-batch without a
\* raising match at the end of the run, whatever the number of matches in a
\* sub-batch and of patterns that fired
C26_OneAcquisitionPerTask ==
  /\ \A k \in DOMAIN tasks :
       tasks[k].st \in {"merging", "done"} => tasks[k].pos = tasks[k].hi + 1
  /\ pc = "idle" => lock_acquisitions = 0
  /\ pc # "idle" =>
       LET sbs == AllSubBatches
       IN /\ lock_acquisitions
               = Cardinality(CompletedSubBatches(sbs, batch_start))
                 + Cardinality({k \in DOMAIN tasks :
                                  tasks[k].st \in {"merging", "done"}})
          /\ pc = "done" =>
               /\ lock_acquisitions
                    = Cardinality(CompletedSubBatches(sbs, Len(matches)))
               /\ lock_acquisitions <= Len(sbs)

\* a finished run of one worker over sub-batches of several matches each, in
\* which patterns fired: fewer acquisitions than matches counted
C26_Witness ==
  /\ pc = "done"
  /\ global_combinations_dict # EmptyDict
  /\ lock_acquisitions >= 2
  /\ lock_acquisitions < Cardinality(merged)

\* the sub-batches of the run are cut one after the other out of the match
\* list: no match is left out and none is in two of them
SubBatchesPartition ==
  LET sbs == AllSubBatches
  IN /\ (Len(matches) = 0) <=> (sbs = <<>>)
     /\ \A j \in 1..Len(sbs) : sbs[j][1] <= sbs[j][2]
     /\ sbs # <<>> => (sbs[1][1] = 1 /\ sbs[Len(sbs)][2] = Len(matches))
     /\ \A j \in 1..(Len(sbs) - 1) : sbs[j + 1][1] = sbs[j][2] + 1

\* C27: batches and sub-batches cover the match list without overlap, every
\* worker task is one of these sub-batches, and at the end of the run every
\* match has been evaluated
C27_BatchingPartitions ==
  /\ SubBatchesPartition
  /\ \A k \in DOMAIN tasks :
       \E j \in 1..Len(AllSubBatches) :
         AllSubBatches[j] = <<tasks[k].lo, tasks[k].hi>>
  /\ pc = "done" => \A i \in 1..Len(matches) : evaluated[i] # <<"pending">>

\* C28: under fair scheduling every batch of submitted tasks comes to its
\* end, the lock is released after every merge and is never held by a worker
\* that raised, a worker that is done with its matches gets the lock and
\* merges, and the run reaches ranking with the lock free
C28_Termination ==
  /\ (pc = "wait") ~> (pc = "batch" /\ tasks = <<>>)
  /\ (dict_lock # 0) ~> (dict_lock = 0)
  /\ [](\A k \in DOMAIN tasks : tasks[k].st = "failed" => dict_lock # k)
  /\ \A k \in 1..MaxMatches :
       (k \in DOMAIN tasks /\ tasks[k].st = "running" /\ tasks[k].pos > tasks[k].hi)
       ~> (k \in DOMAIN tasks /\ tasks[k].st = "done")
  /\ (pc \in {"batch", "wait"}) ~> (pc = "done" /\ dict_lock = 0 /\ tasks = <<>>)

\* in a later batch of a run a worker holds the lock for its merge while
\* another one, done with its matches, waits for it
C28_Witness ==
  /\ batch_start > 0
  /\ \E k, j \in DOMAIN tasks :
       /\ k # j
       /\ tasks[k].st = "merging" /\ dict_lock = k
       /\ tasks[j].st = "running" /\ tasks[j].pos > tasks[j].hi

\* the requests the current enrichment has sent
Requested(endpoint) == \E i \in DOMAIN api_requests : api_requests[i] = endpoint

\* C29: get_match_statistics answers from the cache only when a statistics
\* response was fetched and stored for the match before, and an enrichment
\* that fetched non-empty events also requests the statistics
C29_CacheFirstStatistics ==
  /\ match_data.source = "statistics from cache" => stats_fetched
  /\ (/\ enrich_pc \in {"half_stats", "done"}
      /\ Requested("fixtures/events")
      /\ match_data.events # <<>>)
     => Requested("fixtures/statistics")

\* the cards _extract_half_stats recorded for a half
RecordedCards(half) == half.home_cards + half.away_cards

\* C30: on a match whose half statistics are extracted,
\* first_half_over_0_5_cards fires exactly when a card was recorded in the
\* first half and card_both_halves_yes exactly when one was recorded in each
C30_HalfCardPatterns ==
  enrich_pc = "done" =>
    /\ first_half_over_0_5_cards(match_data)
          <=> RecordedCards(match_data.first_half) > 0
    /\ card_both_halves_yes(match_data)
          <=> (/\ RecordedCards(match_data.first_half) > 0
               /\ RecordedCards(match_data.second_half) > 0)

====
